---- MODULE Spec2Model ----
(***************************************************************************)
(* Model of TftpServer.run_sm (src/bootloader/serial_server.py): the       *)
(* serial TFTP-like server that streams one file to a peer in 512-byte     *)
(* DATA blocks, waits for an ACK after every block, and reports errors     *)
(* with an ERR message.  src/serial_server.py is an earlier draft of the   *)
(* same class with text opcodes; the model follows the bootloader file,    *)
(* whose opcodes and frames are the binary ones.                           *)
(*                                                                         *)
(* Bytes are modelled as naturals 0..255 and byte strings as sequences of  *)
(* bytes.  The content of the file is modelled by position: a payload is   *)
(* the slice [start, start + len) of the file.                             *)
(***************************************************************************)
EXTENDS Integers, Sequences, FiniteSets

VARIABLES
    pc,                    \* control position inside run_sm
    current_state,         \* run_sm local current_state
    timeout,               \* server.timeout
    server_request,        \* run_sm local server_request
    block_counter,         \* run_sm local block_counter
    last_read_block_size,  \* run_sm local last_read_block_size
    attempt,               \* wait_for_valid_ack local attempt (last reply read)
    tries,                 \* completed iterations of the for loop of wait_for_valid_ack
    err_str,               \* TftpServer.err_str
    file_size,             \* length in bytes of the served file
    file_pos,              \* read position of self.file
    wire,                  \* what happened on the transport since the last request read
    cycle_pos,             \* file_pos when the last request was read
    transfers,             \* transfers started so far, saturating at MaxTransfers
    port,                  \* main's server: "unbound", "open" or "closed"
    exit_cause,            \* the exception that ended the process, or "none"
    ack_reads              \* replies read since the last DATA frame was written

vars == <<pc, current_state, timeout, server_request, block_counter,
          last_read_block_size, attempt, tries, err_str, file_size, file_pos,
          wire, cycle_pos, transfers, port, exit_cause, ack_reads>>

-----------------------------------------------------------------------------
(* Bounds of the model.                                                    *)

\* Largest number of full blocks in a served file.
MaxFullBlocks == 2

\* Transfers counted before the counter saturates.
MaxTransfers == 2

-----------------------------------------------------------------------------
(* Class constants of TftpServer.                                          *)

OPCODE_READ == <<0, 1>>
OPCODE_WRITE == <<0, 2>>
OPCODE_DATA == <<0, 3>>
OPCODE_ACK == <<0, 4>>
OPCODE_ERR == <<0, 5>>

STATE_WAITING == 0
STATE_READING == 1
STATE_WRITING == 2
STATE_ERR == 3

tftp_block_size == 512
write_no_ack_retry == 3

\* Values of server.timeout: None, or a number of seconds.
NoTimeout == <<>>
Seconds(n) == <<n>>

-----------------------------------------------------------------------------
(* Pure helpers.                                                           *)

Min(a, b) == IF a < b THEN a ELSE b

\* Python slice s[a:b] of a byte string (0-based, clipped to the string).
Slice(s, a, b) == SubSeq(s, a + 1, Min(b, Len(s)))

\* The number of values of a 2-byte field.
BlockNumbers == 256 * 256

ToBytes2Raises_Never(n) == FALSE

\* int.to_bytes(2, 'big') raises OverflowError outside 0..65535.
ToBytes2Raises(n) == n < 0 \/ n >= BlockNumbers

\* int.to_bytes(2, 'big') for 0 <= n <= 65535.
ToBytes2(n) == <<n \div 256, n % 256>>

\* The big-endian value of a 2-byte field.
FromBytes2(b) == b[1] * 256 + b[2]

get_opcode(input_string) == Slice(input_string, 0, 2)

parse_ack_LittleEndian(given, expected_block) ==
    /\ given[1] = OPCODE_ACK
    /\ given[2] = <<expected_block % 256, expected_block \div 256>>

\* parse_ack returns True, or falls off the end (None, which is false).
parse_ack(given, expected_block) ==
    /\ given[1] = OPCODE_ACK
    /\ given[2] = ToBytes2(expected_block)

\* The check wait_for_valid_ack makes of one reply.
AckMatches(reply, expected_block) ==
    parse_ack(<<get_opcode(reply), Slice(reply, 2, 4)>>, expected_block)

FileReadLen_OneShort(size, pos, n) == Min(n - 1, size - pos)

\* len(self.file.read(n)) with the file at position pos.
FileReadLen(size, pos, n) == Min(n, size - pos)

LoopContinues_NonEmpty(size) == size > 0

\* The condition of the block loop: the last read filled a whole block.
LoopContinues(size) == size = tftp_block_size

NextBlock_Skip(counter) == counter + 2

\* block_counter += 1
NextBlock(counter) == counter + 1

\* The DATA message: opcode, block counter, length, payload.
DataFrame(counter, pos, len) ==
    [kind |-> "DATA", opcode |-> OPCODE_DATA, block |-> ToBytes2(counter),
     length |-> ToBytes2(len), payload |-> [start |-> pos, len |-> len]]

\* The message of the error state: a str built from str(OPCODE_ERR), "00"
\* and err_str.  It is text, not bytes.
ErrMessage(text) == [kind |-> "ERR", type |-> "str", text |-> text]

\* wait_for_valid_ack returned False for this block.
NoAck(counter) == [kind |-> "NOACK", block |-> counter]

NoError == [kind |-> "none"]
ErrUnimplemented(opcode) == [kind |-> "unimplemented", opcode |-> opcode]
ErrNoAck(counter) == [kind |-> "noack", block |-> counter]

-----------------------------------------------------------------------------
(* Inputs.                                                                 *)

\* Lengths of the last, partial block of a file.
Tails == {0, 1, 488, 511}

FileSizes == {b * tftp_block_size + r : b \in 0..MaxFullBlocks, r \in Tails}

\* What server.read(2) can return with no timeout: exactly two bytes.
Requests == {OPCODE_READ, OPCODE_WRITE, OPCODE_DATA, OPCODE_ACK, OPCODE_ERR,
             <<0, 0>>, <<1, 0>>, <<2, 0>>, <<49, 10>>}

\* What server.read_until can return within its timeout.
Lines == {<<>>, <<10>>, <<0, 1>>}

\* What server.read(4) can return within its timeout: up to four bytes.
Replies ==
    {<<>>, <<0>>, <<0, 4>>, <<0, 4, 0>>}
    \cup {op \o <<hi, lo>> : op \in {OPCODE_ACK, OPCODE_DATA, <<4, 0>>},
                             hi \in {0, 1}, lo \in 0..(MaxFullBlocks + 1)}

\* The replies of the long transfer: those around block number 65535.
LongReplies ==
    {<<>>, <<0, 4, 255>>, OPCODE_ACK \o <<0, 0>>, OPCODE_ACK \o <<255, 254>>,
     OPCODE_ACK \o <<255, 255>>, OPCODE_DATA \o <<255, 255>>,
     OPCODE_ACK \o <<254, 255>>}

-----------------------------------------------------------------------------
Init ==
    /\ pc = "main"
    /\ port = "unbound"
    /\ exit_cause = "none"
    /\ ack_reads = 0
    /\ current_state = STATE_WAITING
    /\ timeout = NoTimeout
    /\ server_request = <<>>
    /\ block_counter = 0
    /\ last_read_block_size = 0
    /\ attempt = <<>>
    /\ tries = 0
    /\ err_str = NoError
    /\ file_size \in FileSizes
    /\ file_pos = 0
    /\ wire = <<>>
    /\ cycle_pos = 0
    /\ transfers = 0

-----------------------------------------------------------------------------
(* main: open the port, open the file, enter run_sm.  Any exception ends   *)
(* in the bare except clause, which calls server.close().                  *)

run_sm_vars == <<current_state, timeout, server_request, block_counter,
                 last_read_block_size, attempt, tries, err_str, file_size,
                 file_pos, wire, cycle_pos, transfers, ack_reads>>

\* serial.Serial(...), server.close() and server.open() succeed.
MainOpenPort ==
    /\ pc = "main"
    /\ port' = "open"
    /\ pc' = "open_file"
    /\ UNCHANGED <<exit_cause, run_sm_vars>>

\* serial.Serial(...) raises: server is never bound, and the server.close()
\* of the except clause raises in its turn.  The port was never opened.
MainPortFails ==
    /\ pc = "main"
    /\ port' = "unbound"
    /\ exit_cause' = "port"
    /\ pc' = "exited"
    /\ UNCHANGED run_sm_vars

\* server.open() raises after the port object was built: the except clause
\* closes it.
MainReopenFails ==
    /\ pc = "main"
    /\ port' = "closed"
    /\ exit_cause' = "port"
    /\ pc' = "exited"
    /\ UNCHANGED run_sm_vars

MainFileFails_NoClose ==
    /\ pc = "open_file"
    /\ exit_cause' = "file"
    /\ pc' = "exited"
    /\ UNCHANGED <<port, run_sm_vars>>

\* open(args[0][0], "rb") raises (or args is empty): the except clause
\* closes the port.
MainFileFails ==
    /\ pc = "open_file"
    /\ port' = "closed"
    /\ exit_cause' = "file"
    /\ pc' = "exited"
    /\ UNCHANGED run_sm_vars

\* The file is open (f.closed is false): run_sm is entered.
MainOpenFile ==
    /\ pc = "open_file"
    /\ pc' = "dispatch"
    /\ UNCHANGED <<port, exit_cause, run_sm_vars>>

-----------------------------------------------------------------------------
(* State WAITING: read the request and dispatch on its opcode.             *)

WaitingRead_ToReading ==
    /\ pc = "dispatch"
    /\ current_state = STATE_WAITING
    /\ \E request \in Requests :
        /\ server_request' = request
        /\ get_opcode(request) = OPCODE_READ
    /\ timeout' = NoTimeout
    /\ current_state' = STATE_READING
    /\ wire' = <<>>
    /\ cycle_pos' = file_pos
    /\ UNCHANGED <<pc, block_counter, last_read_block_size, attempt, tries,
                   err_str, file_size, file_pos, transfers>>
    /\ UNCHANGED <<port, exit_cause, ack_reads>>

WaitingRead ==
    /\ pc = "dispatch"
    /\ current_state = STATE_WAITING
    /\ \E request \in Requests :
        /\ server_request' = request
        /\ get_opcode(request) = OPCODE_READ
    /\ timeout' = NoTimeout
    /\ current_state' = STATE_WRITING
    /\ wire' = <<>>
    /\ cycle_pos' = file_pos
    /\ UNCHANGED <<pc, block_counter, last_read_block_size, attempt, tries,
                   err_str, file_size, file_pos, transfers>>
    /\ UNCHANGED <<port, exit_cause, ack_reads>>

WaitingWrite ==
    /\ pc = "dispatch"
    /\ current_state = STATE_WAITING
    /\ \E request \in Requests :
        /\ server_request' = request
        /\ get_opcode(request) = OPCODE_WRITE
        /\ err_str' = ErrUnimplemented(get_opcode(request))
    /\ timeout' = NoTimeout
    /\ current_state' = STATE_ERR
    /\ wire' = <<>>
    /\ cycle_pos' = file_pos
    /\ UNCHANGED <<pc, block_counter, last_read_block_size, attempt, tries,
                   file_size, file_pos, transfers>>
    /\ UNCHANGED <<port, exit_cause, ack_reads>>

\* Any other opcode: the timeout is set to 1 for the read_until that follows.
WaitingOther ==
    /\ pc = "dispatch"
    /\ current_state = STATE_WAITING
    /\ \E request \in Requests :
        /\ server_request' = request
        /\ get_opcode(request) \notin {OPCODE_READ, OPCODE_WRITE}
    /\ timeout' = Seconds(1)
    /\ pc' = "read_until"
    /\ wire' = <<>>
    /\ cycle_pos' = file_pos
    /\ UNCHANGED <<current_state, block_counter, last_read_block_size, attempt,
                   tries, err_str, file_size, file_pos, transfers>>
    /\ UNCHANGED <<port, exit_cause, ack_reads>>

\* server_request += server.read_until('\n'); the state stays WAITING.
ReadUntil ==
    /\ pc = "read_until"
    /\ \E line \in Lines : server_request' = server_request \o line
    /\ timeout' = NoTimeout
    /\ pc' = "dispatch"
    /\ UNCHANGED <<current_state, block_counter, last_read_block_size, attempt,
                   tries, err_str, file_size, file_pos, wire, cycle_pos,
                   transfers>>
    /\ UNCHANGED <<port, exit_cause, ack_reads>>

-----------------------------------------------------------------------------
(* State WRITING: the block loop.                                          *)

StartWriting_Rewind ==
    /\ pc = "dispatch"
    /\ current_state = STATE_WRITING
    /\ timeout' = Seconds(2)
    /\ block_counter' = 0
    /\ last_read_block_size' = tftp_block_size
    /\ transfers' = Min(transfers + 1, MaxTransfers)
    /\ file_pos' = 0
    /\ pc' = "loop"
    /\ UNCHANGED <<current_state, server_request, attempt, tries, err_str,
                   file_size, wire, cycle_pos>>
    /\ UNCHANGED <<port, exit_cause, ack_reads>>

StartWriting ==
    /\ pc = "dispatch"
    /\ current_state = STATE_WRITING
    /\ timeout' = Seconds(2)
    /\ block_counter' = 0
    /\ last_read_block_size' = tftp_block_size
    /\ transfers' = Min(transfers + 1, MaxTransfers)
    /\ pc' = "loop"
    /\ UNCHANGED <<current_state, server_request, attempt, tries, err_str,
                   file_size, file_pos, wire, cycle_pos>>
    /\ UNCHANGED <<port, exit_cause, ack_reads>>

\* One pass of the loop body up to server.write(message).
SendData ==
    /\ pc = "loop"
    /\ LoopContinues(last_read_block_size)
    /\ ~ToBytes2Raises(block_counter)
    /\ LET len == FileReadLen(file_size, file_pos, tftp_block_size) IN
        /\ last_read_block_size' = len
        /\ file_pos' = file_pos + len
        /\ wire' = Append(wire, DataFrame(block_counter, file_pos, len))
    /\ pc' = "read_ack"
    /\ UNCHANGED <<current_state, timeout, server_request, block_counter,
                   attempt, tries, err_str, file_size, cycle_pos, transfers>>
    /\ UNCHANGED <<port, exit_cause>>
    /\ ack_reads' = 0

\* block_counter.to_bytes(2, 'big') raises OverflowError at the top of the
\* loop body: the exception leaves run_sm and main's except clause closes
\* the port.
SendOverflow ==
    /\ pc = "loop"
    /\ LoopContinues(last_read_block_size)
    /\ ToBytes2Raises(block_counter)
    /\ pc' = "exited"
    /\ port' = "closed"
    /\ exit_cause' = "OverflowError"
    /\ UNCHANGED run_sm_vars

\* acq = server.read(4), then wait_for_valid_ack is entered.
ReadAckFrom(replies) ==
    /\ pc = "read_ack"
    /\ \E reply \in replies : attempt' = reply
    /\ tries' = 0
    /\ pc' = "wait_ack"
    /\ UNCHANGED <<current_state, timeout, server_request, block_counter,
                   last_read_block_size, err_str, file_size, file_pos, wire,
                   cycle_pos, transfers>>
    /\ UNCHANGED <<port, exit_cause>>
    /\ ack_reads' = 1

ReadAck == ReadAckFrom(Replies)

LongReadAck == ReadAckFrom(LongReplies)

\* An iteration of wait_for_valid_ack that finds a valid ACK: return True,
\* and run_sm advances the block counter.
AckValid ==
    /\ pc = "wait_ack"
    /\ tries < write_no_ack_retry
    /\ AckMatches(attempt, block_counter)
    /\ block_counter' = NextBlock(block_counter)
    /\ pc' = "loop"
    /\ UNCHANGED <<current_state, timeout, server_request,
                   last_read_block_size, attempt, tries, err_str, file_size,
                   file_pos, wire, cycle_pos, transfers>>
    /\ UNCHANGED <<port, exit_cause, ack_reads>>

AckRetry_Resend ==
    /\ pc = "wait_ack"
    /\ tries < write_no_ack_retry
    /\ ~AckMatches(attempt, block_counter)
    /\ \E reply \in Replies : attempt' = reply
    /\ tries' = tries + 1
    /\ wire' = Append(wire, wire[Len(wire)])
    /\ ack_reads' = ack_reads + 1
    /\ UNCHANGED <<pc, current_state, timeout, server_request, block_counter,
                   last_read_block_size, err_str, file_size, file_pos,
                   cycle_pos, transfers, port, exit_cause>>

\* An iteration that finds no valid ACK: read the next reply.
AckRetryFrom(replies) ==
    /\ pc = "wait_ack"
    /\ tries < write_no_ack_retry
    /\ ~AckMatches(attempt, block_counter)
    /\ \E reply \in replies : attempt' = reply
    /\ tries' = tries + 1
    /\ UNCHANGED <<pc, current_state, timeout, server_request, block_counter,
                   last_read_block_size, err_str, file_size, file_pos, wire,
                   cycle_pos, transfers>>
    /\ UNCHANGED <<port, exit_cause>>
    /\ ack_reads' = ack_reads + 1

AckRetry == AckRetryFrom(Replies)

LongAckRetry == AckRetryFrom(LongReplies)

\* The for loop is exhausted: return False, and run_sm records the error.
\* The block loop is not left here: its condition is evaluated next.
AckFail ==
    /\ pc = "wait_ack"
    /\ tries = write_no_ack_retry
    /\ current_state' = STATE_ERR
    /\ err_str' = ErrNoAck(block_counter)
    /\ wire' = Append(wire, NoAck(block_counter))
    /\ pc' = "loop"
    /\ UNCHANGED <<timeout, server_request, block_counter,
                   last_read_block_size, attempt, tries, file_size, file_pos,
                   cycle_pos, transfers>>
    /\ UNCHANGED <<port, exit_cause, ack_reads>>

EndWriting_AlwaysWaiting ==
    /\ pc = "loop"
    /\ ~LoopContinues(last_read_block_size)
    /\ current_state' = STATE_WAITING
    /\ pc' = "dispatch"
    /\ UNCHANGED <<timeout, server_request, block_counter,
                   last_read_block_size, attempt, tries, err_str, file_size,
                   file_pos, wire, cycle_pos, transfers>>
    /\ UNCHANGED <<port, exit_cause, ack_reads>>

\* The block loop ends; a transfer still in WRITING goes back to WAITING.
EndWriting ==
    /\ pc = "loop"
    /\ ~LoopContinues(last_read_block_size)
    /\ current_state' =
         IF current_state = STATE_WRITING THEN STATE_WAITING ELSE current_state
    /\ pc' = "dispatch"
    /\ UNCHANGED <<timeout, server_request, block_counter,
                   last_read_block_size, attempt, tries, err_str, file_size,
                   file_pos, wire, cycle_pos, transfers>>
    /\ UNCHANGED <<port, exit_cause, ack_reads>>

-----------------------------------------------------------------------------
(* State ERR.                                                              *)

\* server.write(message) takes the str message: the message goes out,
\* err_str is cleared and the state is WAITING again.
ErrWritten ==
    /\ pc = "dispatch"
    /\ current_state = STATE_ERR
    /\ wire' = Append(wire, ErrMessage(err_str))
    /\ err_str' = NoError
    /\ current_state' = STATE_WAITING
    /\ UNCHANGED <<pc, timeout, server_request, block_counter,
                   last_read_block_size, attempt, tries, file_size, file_pos,
                   cycle_pos, transfers>>
    /\ UNCHANGED <<port, exit_cause, ack_reads>>

\* server.write(message) refuses the str message (serial.Serial.write takes
\* bytes and raises TypeError for a str): the exception leaves run_sm and
\* main's except clause closes the port.
ErrRaises ==
    /\ pc = "dispatch"
    /\ current_state = STATE_ERR
    /\ pc' = "exited"
    /\ port' = "closed"
    /\ exit_cause' = "TypeError"
    /\ UNCHANGED <<current_state, timeout, server_request, block_counter,
                   last_read_block_size, attempt, tries, err_str, file_size,
                   file_pos, wire, cycle_pos, transfers, ack_reads>>

-----------------------------------------------------------------------------
\* The steps of run_sm that read no reply.
RunSmOther ==
    \/ WaitingRead
    \/ WaitingWrite
    \/ WaitingOther
    \/ ReadUntil
    \/ StartWriting
    \/ SendData
    \/ AckValid
    \/ AckFail
    \/ EndWriting
    \/ ErrWritten
    \/ ErrRaises

\* The steps of run_sm.
RunSm ==
    \/ RunSmOther
    \/ ReadAck
    \/ AckRetry

Next ==
    \/ MainOpenPort
    \/ MainPortFails
    \/ MainReopenFails
    \/ MainOpenFile
    \/ MainFileFails
    \/ RunSm

Spec == Init /\ [][Next]_vars

-----------------------------------------------------------------------------
(* A long transfer, taken up where the block counter is about to leave the *)
(* range of its 2-byte field: the first transfer of a run, of a file of at *)
(* least 65535 full blocks, after blocks 0..65533 were each acknowledged   *)
(* by the first reply read.  The record of the wire starts there: it       *)
(* holds what is written from block 65534 on.                              *)

LongFileSizes ==
    {b * tftp_block_size + r : b \in {BlockNumbers - 1, BlockNumbers}, r \in Tails}

LongInit ==
    /\ pc = "loop"
    /\ port = "open"
    /\ exit_cause = "none"
    /\ current_state = STATE_WRITING
    /\ timeout = Seconds(2)
    /\ server_request = OPCODE_READ
    /\ block_counter = BlockNumbers - 2
    /\ last_read_block_size = tftp_block_size
    /\ attempt = OPCODE_ACK \o ToBytes2(BlockNumbers - 3)
    /\ tries = 0
    /\ ack_reads = 1
    /\ err_str = NoError
    /\ file_size \in LongFileSizes
    /\ file_pos = (BlockNumbers - 2) * tftp_block_size
    /\ wire = <<>>
    /\ cycle_pos = 0
    /\ transfers = 1

LongNext ==
    \/ RunSmOther
    \/ LongReadAck
    \/ LongAckRetry
    \/ SendOverflow

LongSpec == LongInit /\ [][LongNext]_vars

\* The steps run_sm takes by itself or within a read timeout; the read of a
\* request in WAITING has no timeout and may block for ever.
Progress ==
    \/ ReadUntil
    \/ StartWriting
    \/ SendData
    \/ ReadAck
    \/ AckValid
    \/ AckRetry
    \/ AckFail
    \/ EndWriting
    \/ ErrWritten
    \/ ErrRaises
    \/ MainOpenPort
    \/ MainPortFails
    \/ MainReopenFails
    \/ MainOpenFile
    \/ MainFileFails

\* The loop of run_sm keeps running: a step that does not block is taken.
FairSpec == Spec /\ WF_vars(Progress)

-----------------------------------------------------------------------------
(* What the properties below read off the state.                           *)

\* The DATA frames written since the last request was read, in order.
DataFrames == SelectSeq(wire, LAMBDA e : e.kind = "DATA")

\* The ERR messages written since the last request was read, in order.
ErrFrames == SelectSeq(wire, LAMBDA e : e.kind = "ERR")

\* An ACK wait has failed since the last request was read.
AckFailed == \E i \in 1..Len(wire) : wire[i].kind = "NOACK"

\* The opcode of the last request read.
RequestOpcode == get_opcode(server_request)

\* run_sm is about to read the next request.
AtWaiting == pc = "dispatch" /\ current_state = STATE_WAITING

\* Nothing more is written for the last request: run_sm reads the next
\* request, or has been left.
CycleOver == AtWaiting \/ pc = "exited"

\* main failed before run_sm was entered.
SetupFailed == exit_cause \in {"port", "file"}

\* run_sm was left by an exception.
RunSmExited == pc = "exited" /\ ~SetupFailed

\* The state was ERR at some point since the last request was read.
ErrEntered == RequestOpcode = OPCODE_WRITE \/ AckFailed

-----------------------------------------------------------------------------
(* C1: once an ACK wait has failed in a transfer, no DATA frame is written *)
(* for that transfer any more, whatever the size of the block.             *)
C1_NoDataAfterAckFailure ==
    \A i, j \in 1..Len(wire) :
        (i < j /\ wire[i].kind = "NOACK") => wire[j].kind # "DATA"

(* C2: a request whose opcode is neither READ nor WRITE moves the machine  *)
(* to ERR with an invalid-opcode message, and one ERR message is written   *)
(* before the next request is read.                                        *)
C2_UnknownOpcodeReported ==
    (AtWaiting /\ Len(server_request) >= 2
        /\ RequestOpcode \notin {OPCODE_READ, OPCODE_WRITE})
    => (Len(ErrFrames) = 1 /\ ErrFrames[1].text.kind = "invalid_opcode")

(* C3: a transfer in which every DATA frame is acknowledged writes         *)
(* floor(S/512) + 1 DATA frames for a file of S bytes, the last one with   *)
(* S mod 512 payload bytes, and ends in WAITING.                           *)
C3_BlockCount ==
    (AtWaiting /\ RequestOpcode = OPCODE_READ /\ DataFrames # <<>> /\ ~AckFailed)
    => /\ Len(DataFrames) = (file_size \div tftp_block_size) + 1
       /\ DataFrames[Len(DataFrames)].payload.len = file_size % tftp_block_size

(* C4: in a transfer in which no ACK wait has failed, the block numbers of *)
(* the DATA frames written are 0, 1, 2, ... in that order, and a transfer  *)
(* starts with block_counter = 0.                                          *)
C4_MonotonicBlocks ==
    /\ ~AckFailed =>
         \A i \in 1..Len(DataFrames) : FromBytes2(DataFrames[i].block) = i - 1
    /\ (pc = "loop" /\ wire = <<>>) => block_counter = 0

\* A transfer with no failed ACK wait has written blocks 0, 1, 2 and ended.
C4_Witness ==
    /\ ~AckFailed
    /\ Len(DataFrames) = 3
    /\ FromBytes2(DataFrames[3].block) = 2
    /\ AtWaiting

(* C5: block_counter changes only by the reset to 0 at the start of a      *)
(* transfer, or from k to k + 1 when the last thing written is DATA frame  *)
(* k and the reply being checked is four bytes long with opcode ACK and a  *)
(* big-endian block field equal to k.                                      *)
C5_AckGating ==
    [][block_counter' # block_counter =>
        \/ pc = "dispatch" /\ block_counter' = 0
        \/ /\ block_counter' = block_counter + 1
           /\ pc = "wait_ack"
           /\ wire # <<>>
           /\ wire[Len(wire)].kind = "DATA"
           /\ FromBytes2(wire[Len(wire)].block) = block_counter
           /\ Len(attempt) = 4
           /\ SubSeq(attempt, 1, 2) = OPCODE_ACK
           /\ FromBytes2(SubSeq(attempt, 3, 4)) = block_counter]_vars

\* The counter has advanced to 2 on the ACK of block 1.
C5_Witness ==
    /\ pc = "loop"
    /\ block_counter = 2
    /\ attempt = <<0, 4, 0, 1>>

(* C6: every entry into ERR produces exactly one ERR message before the   *)
(* next request is read, carrying the error message, which is then         *)
(* cleared; no ERR message is written when the state was not ERR.          *)
C6_OneErrorFramePerError ==
    /\ Len(ErrFrames) <= 1
    /\ Len(ErrFrames) = 1 => ErrEntered
    /\ (CycleOver /\ ErrEntered) =>
         /\ Len(ErrFrames) = 1
         /\ ErrFrames[1].text # NoError
         /\ err_str = NoError

(* C7: the state machine never exits on its own; from ERR the next state   *)
(* is WAITING, and from WRITING the machine eventually reads the next      *)
(* request in WAITING, whatever the peer replies.                          *)
C7_AlwaysBackToWaiting ==
    /\ [](~RunSmExited)
    /\ [][(pc = "dispatch" /\ current_state = STATE_ERR)
            => (pc' = "dispatch" /\ current_state' = STATE_WAITING)]_vars
    /\ (current_state = STATE_WRITING) ~> AtWaiting

(* C8: a WRITE request is answered by exactly one ERR message with the     *)
(* 'unimplemented' text; no DATA frame is written, the file is not read,   *)
(* and the machine is back in WAITING.                                     *)
C8_WriteRequestRejected ==
    RequestOpcode = OPCODE_WRITE =>
        /\ DataFrames = <<>>
        /\ file_pos = cycle_pos
        /\ CycleOver =>
             /\ AtWaiting
             /\ wire = <<ErrMessage(ErrUnimplemented(OPCODE_WRITE))>>

\* Blocks 0 and 1 were acknowledged and no reply after DATA block 2 matched.
ScenarioC ==
    /\ Len(wire) >= 4
    /\ \A i \in 1..3 :
         wire[i].kind = "DATA" /\ FromBytes2(wire[i].block) = i - 1
    /\ wire[4] = NoAck(2)
    /\ block_counter = 2

(* C9: when blocks 0 and 1 are acknowledged and no reply after DATA block  *)
(* 2 matches, exactly one ERR message is written for the transfer, it      *)
(* names block 2, and the machine returns to WAITING.                      *)
C9_FailedTransferReport ==
    (ScenarioC /\ CycleOver) =>
        /\ AtWaiting
        /\ Len(ErrFrames) = 1
        /\ ErrFrames[1].text = ErrNoAck(2)

(* C10: every DATA frame has a payload of at most 512 bytes and a length   *)
(* field equal to its payload length; a frame followed by another DATA     *)
(* frame of the same transfer has a payload of exactly 512 bytes, so a     *)
(* shorter frame is the last one.                                          *)
C10_TerminalFrame ==
    \A i \in 1..Len(DataFrames) :
        /\ DataFrames[i].payload.len <= tftp_block_size
        /\ FromBytes2(DataFrames[i].length) = DataFrames[i].payload.len
        /\ i < Len(DataFrames) => DataFrames[i].payload.len = tftp_block_size

\* A transfer of two full blocks and a short last block has ended.
C10_Witness ==
    /\ AtWaiting
    /\ Len(DataFrames) = 3
    /\ DataFrames[1].payload.len = tftp_block_size
    /\ DataFrames[3].payload.len = 488

(* C11: the current state is always WAITING, WRITING or ERR: READING and  *)
(* the 'unimplemented state' branch are never reached, and at every        *)
(* dispatch at the top of the loop a branch is taken.                      *)
C11_StateTotality ==
    /\ current_state \in {STATE_WAITING, STATE_WRITING, STATE_ERR}
    /\ pc = "dispatch" => ENABLED RunSm

\* The dispatch finds state ERR after a second transfer whose ACK wait failed.
C11_Witness ==
    /\ pc = "dispatch"
    /\ current_state = STATE_ERR
    /\ AckFailed
    /\ transfers = 2

(* C12: when opening the port or the file fails in main, run_sm is never   *)
(* entered, nothing is written to the transport and the port is not open   *)
(* when the process ends.                                                  *)
C12_SetupFailureSilent ==
    SetupFailed =>
        /\ pc = "exited"
        /\ port # "open"
        /\ wire = <<>>
        /\ server_request = <<>>
        /\ transfers = 0
        /\ current_state = STATE_WAITING

\* The file could not be opened after the port was.
C12_Witness == pc = "exited" /\ exit_cause = "file" /\ port = "closed"

\* wait_for_valid_ack has just returned False.
AckWaitFailed ==
    pc = "loop" /\ wire # <<>> /\ wire[Len(wire)].kind = "NOACK"

(* C13: the ACK wait for one DATA frame reads at most max_retries replies, *)
(* every reply read is checked, and a matching ACK among the replies read  *)
(* makes the wait succeed.                                                 *)
C13_AckAttempts ==
    /\ ack_reads <= write_no_ack_retry
    /\ AckWaitFailed => ~AckMatches(attempt, block_counter)

\* Consecutive DATA frames of a cycle carry consecutive slices of the file.
PayloadsSequential ==
    \A i \in 1..(Len(DataFrames) - 1) :
        DataFrames[i + 1].payload.start
            = DataFrames[i].payload.start + DataFrames[i].payload.len

(* C14: a reply that does not match is followed by another read with       *)
(* nothing written in between; a DATA frame is written once, each DATA     *)
(* write follows exactly one read of the file, and no file byte is sent    *)
(* twice: the file position never goes back.                               *)
C14_NoRetransmission ==
    /\ [](PayloadsSequential)
    /\ [][(pc = "wait_ack" /\ pc' = "wait_ack")
            => (wire' = wire /\ file_pos' = file_pos)]_vars
    /\ [][Len(wire') > Len(wire) /\ wire'[Len(wire')].kind = "DATA"
            => /\ wire'[Len(wire')].payload.start = file_pos
               /\ file_pos' = file_pos + wire'[Len(wire')].payload.len]_vars

\* A reply that did not match was followed by a second read, after DATA
\* block 1 had followed DATA block 0.
C14_Witness ==
    /\ pc = "wait_ack"
    /\ ack_reads = 2
    /\ Len(DataFrames) = 2
    /\ DataFrames[2].payload.start = tftp_block_size

(* C15: a transport read issued in state WAITING is issued with no         *)
(* timeout, and a read issued in state WRITING (an ACK read) with a        *)
(* timeout of 2: no read outside WAITING can block for ever.               *)
C15_TimeoutDiscipline ==
    /\ (pc = "read_until" /\ current_state = STATE_WAITING)
         => timeout = NoTimeout
    /\ pc \in {"read_ack", "wait_ack"} => timeout = Seconds(2)

\* The first transfer of the run has ended with every DATA frame acknowledged.
FirstTransferDone ==
    /\ AtWaiting
    /\ transfers = 1
    /\ RequestOpcode = OPCODE_READ
    /\ DataFrames # <<>>
    /\ ~AckFailed

(* C16: when the first transfer of a run ends with every DATA frame        *)
(* acknowledged, the payloads in the order written are the file from its   *)
(* first to its last byte: consecutive slices of at most 512 bytes,        *)
(* starting at 0 and ending at the file's size.                            *)
C16_PayloadFidelity ==
    FirstTransferDone =>
        /\ DataFrames[1].payload.start = 0
        /\ \A i \in 1..Len(DataFrames) :
             /\ DataFrames[i].payload.len \in 0..tftp_block_size
             /\ i < Len(DataFrames) =>
                  DataFrames[i + 1].payload.start
                      = DataFrames[i].payload.start + DataFrames[i].payload.len
        /\ LET last == DataFrames[Len(DataFrames)].payload
           IN last.start + last.len = file_size

\* A first transfer of a file of 1024 + 511 bytes has ended.
C16_Witness ==
    /\ FirstTransferDone
    /\ file_size = 2 * tftp_block_size + 511
    /\ Len(DataFrames) = 3

\* A transfer other than the first of the run is under way or has ended.
LaterTransfer ==
    /\ transfers >= 2
    /\ RequestOpcode = OPCODE_READ
    /\ ~(pc = "dispatch" /\ current_state = STATE_WRITING)

(* C17: the file position never goes back, and a transfer that starts      *)
(* after the file was read to its end writes exactly one DATA frame,       *)
(* numbered 0, with an empty payload.                                      *)
C17_FilePosition ==
    /\ [][file_pos' >= file_pos]_vars
    /\ [](LaterTransfer =>
            /\ Len(DataFrames) <= 1
            /\ DataFrames # <<>> =>
                 /\ FromBytes2(DataFrames[1].block) = 0
                 /\ DataFrames[1].payload.len = 0
            /\ (AtWaiting \/ pc = "exited") => Len(DataFrames) = 1)

\* A second transfer of a file of 1024 bytes has ended with one DATA frame.
C17_Witness ==
    /\ AtWaiting
    /\ transfers = 2
    /\ RequestOpcode = OPCODE_READ
    /\ file_size = 2 * tftp_block_size
    /\ Len(DataFrames) = 1

(* C18: at every dispatch at the top of the loop the error message is set  *)
(* exactly when the state is ERR; it is empty at every request read, and a *)
(* transfer with a failed ACK wait does not come back to WAITING without   *)
(* the ERR state having written its message.                               *)
C18_ErrorCoupling ==
    /\ pc = "dispatch" => (err_str # NoError <=> current_state = STATE_ERR)
    /\ AtWaiting => err_str = NoError
    /\ (AtWaiting /\ AckFailed) => ErrFrames # <<>>

\* The dispatch finds state ERR with the message of a failed ACK wait.
C18_Witness ==
    /\ pc = "dispatch"
    /\ current_state = STATE_ERR
    /\ err_str = ErrNoAck(1)

\* The block number of the i-th thing on the wire, a DATA frame.
BlockOf(i) == FromBytes2(wire[i].block)

(* C19: the block number of every DATA frame and the number every reply   *)
(* is compared with are unsigned 16-bit values; after the frame numbered   *)
(* 65535 the counter does not wrap to 0: no DATA frame numbered 0 follows  *)
(* it in the transfer, and with the counter at 65536 the state machine     *)
(* stops instead of sending the next block.                                *)
C19_BlockNumberWidth ==
    /\ [](\A j \in 1..Len(wire) : wire[j].kind = "DATA" =>
            /\ wire[j].block[1] \in 0..255
            /\ wire[j].block[2] \in 0..255
            /\ (j > 1 /\ BlockOf(j) = 0) =>
                 \A i \in 1..(j - 1) :
                     wire[i].kind = "DATA" => BlockOf(i) # BlockNumbers - 1)
    /\ [](pc \in {"read_ack", "wait_ack"}
            => block_counter \in 0..(BlockNumbers - 1))
    /\ [][(pc = "loop" /\ LoopContinues(last_read_block_size)
             /\ block_counter >= BlockNumbers)
            => (pc' = "exited" /\ wire' = wire)]_vars

\* The counter left the 16-bit range after the frame numbered 65535 and
\* the state machine stopped.
C19_Witness ==
    /\ pc = "exited"
    /\ exit_cause = "OverflowError"
    /\ block_counter = BlockNumbers
    /\ wire[Len(wire)].kind = "DATA"
    /\ BlockOf(Len(wire)) = BlockNumbers - 1

====
